---- MODULE Spec2Model ----
(***************************************************************************)
(* Model of the dual-window recording coordinator of the Stories backend   *)
(* (src/backend/window_manager.py, class WindowManager).                   *)
(*                                                                         *)
(* Request threads call the public methods of one shared WindowManager.    *)
(* Every method is executed as the code executes it: a thread owns a call  *)
(* stack of frames, a frame acquires self._lock (a threading.Lock, which   *)
(* is NOT reentrant), runs its critical section up to the next method call *)
(* or to the end of the `with` block, releases the lock and returns.  A    *)
(* method called from inside another method is a new frame on the same     *)
(* thread's stack and acquires the lock like any other call.               *)
(***************************************************************************)
EXTENDS Integers, Sequences, FiniteSets, TLC

\* ------------------------------------------------------------------ bounds
NumThreads == 2
MaxClock == 2

Threads == 1..NumThreads

\* ------------------------------------------------------------------- enums
WindowType == {"main", "widget"}
RecordingState == {"idle", "recording", "processing", "error"}
WindowState == {"hidden", "visible", "focused", "minimized"}

\* Python's Optional: None, or a value.
None == <<>>
Some(x) == <<x>>
IsNone(o) == Len(o) = 0
OptionalWindow == {None} \cup {Some(w) : w \in WindowType}

\* Outcomes of writing a file: written, open() failed (file untouched),
\* json.dump failed after open() truncated the file (file unreadable).
SaveOutcome == {"ok", "open_failed", "write_failed"}

VARIABLES
    recording_state,        \* self.recording_state
    active_window,          \* self.active_window (None or a WindowType)
    recording_session_id,   \* self.recording_session_id (None or "rec_<ms>")
    recording_start_time,   \* self.recording_start_time (None or a time)
    window_states,          \* self.window_states
    window_state_file,      \* contents of window_states.json (None: unreadable)
    lock,                   \* self._lock: the set of threads holding it (0 or 1)
    stack,                  \* per thread: the frames of the calls in progress
    result,                 \* per thread: what its last finished call returned
    now,                    \* the wall clock, in milliseconds
    error,                  \* should_retry: the description of the exception
    classified,             \* should_retry: what it returned (None: not yet)
    handler,                \* the TranscriptionRetryHandler: its configuration
    attempt,                \* retry_transcription: the loop variable
    calls,                  \* what each invocation of the operation did
    sleeps,                 \* the delays time.sleep was called with (ms)
    last_error,             \* retry_transcription: last_error
    retry_reason,           \* retry_transcription: retry_reason
    retry_result,           \* the RetryResult returned (None: not yet)
    delay_reason,           \* calculate_delay: the retry_reason it is given
    delays,                 \* calculate_delay: its values for attempt 1, 2, ...
    audio_duration,         \* what get_audio_duration returned (None: unknown)
    dynamic_timeout,        \* how calculate_dynamic_timeout ended (None: not yet)
    api_timeout,            \* create_openai_transcription: its `timeout`
    notification,           \* what create_retry_notification returned
    widget_position,        \* self.widget_config['position'] as <<x, y>>
    widget_config_file,     \* contents of widget_state.json (None: unreadable)
    last_position_set,      \* the position of the last set_widget_position
                            \* to reach `return True` (None: none has)
    window_manager_instance,\* the global _window_manager_instance
    constructed,            \* how many WindowManager objects were constructed
    getter,                 \* per thread: its get_shared_window_manager call
    notified                \* what the state-change listeners received of the
                            \* recording transitions: <<type, session id>>

session == <<recording_state, active_window, recording_session_id,
             recording_start_time>>
windows == <<window_states, window_state_file>>
widget == <<widget_position, widget_config_file, last_position_set>>
singleton == <<window_manager_instance, constructed, getter>>
coordinator == <<session, windows, widget, lock, stack, result, now, notified>>
classification == <<error, classified>>
retry_loop == <<attempt, calls, sleeps, last_error, retry_reason, retry_result>>
backoff == <<delay_reason, delays>>
timeouts == <<audio_duration, dynamic_timeout, api_timeout>>
retry == <<classification, handler, retry_loop, backoff, timeouts, notification>>
vars == <<recording_state, active_window, recording_session_id,
          recording_start_time, window_states, window_state_file,
          lock, stack, result, now, error, classified, handler, attempt,
          calls, sleeps, last_error, retry_reason, retry_result,
          delay_reason, delays, audio_duration, dynamic_timeout,
          api_timeout, notification, widget_position, widget_config_file,
          last_position_set, window_manager_instance, constructed, getter,
          notified>>

\* ------------------------------------------------------------------ frames
NoResult == [kind |-> "none"]

Frame(op, arg) ==
    [op |-> op, pc |-> "acquire", arg |-> arg, k |-> "", loc |-> <<>>,
     ret |-> <<>>]

Depth(t) == Len(stack[t])
Top(t) == stack[t][Depth(t)]
Caller(t) == stack[t][Depth(t) - 1]
InCall(t) == Depth(t) > 0

\* The thread's stack with its top frame replaced.
SetTop(t, f) == [stack EXCEPT ![t] = [@ EXCEPT ![Len(@)] = f]]
\* The top frame `f` calls a method: it waits at continuation k for the callee.
Invoke(t, f, k, callee) ==
    [stack EXCEPT ![t] =
        Append([@ EXCEPT ![Len(@)] = [f EXCEPT !.pc = "call", !.k = k]], callee)]
\* The callee (top frame) is popped and the caller becomes `f`.
PopTo(t, f) ==
    [stack EXCEPT ![t] = Append(SubSeq(@, 1, Len(@) - 2), f)]

Returning(f, v) == [f EXCEPT !.pc = "return", !.ret = v]

\* ------------------------------------------------------------ persistence
\* _save_window_states: the file after the write; the exception of a failed
\* write is caught and logged inside the method, the caller sees nothing.
save_window_states(ws, file, outcome) ==
    CASE outcome = "ok" -> Some(ws)
      [] outcome = "open_failed" -> file
      [] outcome = "write_failed" -> None

\* ------------------------------------------------- get_recording_state
\* The dict built under the lock.
recording_info ==
    [state |-> recording_state,
     active_window |-> active_window,
     session_id |-> recording_session_id,
     start_time |-> recording_start_time,
     duration |-> IF IsNone(recording_start_time) THEN None
                  ELSE Some(now - recording_start_time[1])]

\* with self._lock: return {...}
get_recording_state_locked(t) ==
    /\ lock' = {}
    /\ stack' = SetTop(t, Returning(Top(t), recording_info))
    /\ UNCHANGED <<session, windows, result, now, retry,
                   widget, singleton, notified>>

\* --------------------------------------------------- get_button_states
\* A variant in which the window that owns the session keeps its button
\* enabled (used to test the claims about button_states).
button_states_by_owner(rs, aw) ==
    LET enabled(w) == rs = "idle" \/ (rs # "error" /\ aw = Some(w))
        text == CASE rs = "idle" -> "Record"
                  [] rs = "recording" -> "Recording..."
                  [] rs = "processing" -> "Processing..."
                  [] rs = "error" -> "Error"
    IN  [main |-> [text |-> text, enabled |-> enabled("main"), state |-> rs],
         widget |-> [text |-> text, enabled |-> enabled("widget"),
                     state |-> rs]]

\* The dict computed, outside the lock, from the two values read under it.
button_states(rs, aw) ==
    IF rs = "idle" THEN
        [main |-> [text |-> "Record", enabled |-> TRUE, state |-> "idle"],
         widget |-> [text |-> "Record", enabled |-> TRUE, state |-> "idle"]]
    ELSE IF rs \in {"recording", "processing"} THEN
        [main |-> [text |-> IF rs = "recording" THEN "Recording..."
                            ELSE "Processing...",
                   enabled |-> FALSE,
                   state |-> rs],
         widget |-> [text |-> IF rs = "recording" THEN "Stop"
                              ELSE "Processing...",
                     enabled |-> (rs = "recording"),
                     state |-> rs,
                     active_control |-> TRUE]]
    ELSE
        [main |-> [text |-> "Error", enabled |-> FALSE, state |-> "error"],
         widget |-> [text |-> "Error", enabled |-> FALSE, state |-> "error"]]

\* with self._lock: read recording_state and active_window into locals.
get_button_states_locked(t) ==
    /\ lock' = {}
    /\ stack' = SetTop(t, [Top(t) EXCEPT
                    !.pc = "after",
                    !.loc = [recording_state |-> recording_state,
                             active_window |-> active_window]])
    /\ UNCHANGED <<session, windows, result, now, retry,
                   widget, singleton, notified>>

get_button_states_after(t) ==
    /\ stack' = SetTop(t, Returning(Top(t),
                    button_states(Top(t).loc.recording_state,
                                  Top(t).loc.active_window)))
    /\ UNCHANGED <<session, windows, lock, result, now, retry,
                   widget, singleton, notified>>

\* ---------------------------------------------------- set_window_state
\* with self._lock: remember the old state, set the new one, save the file.
set_window_state_locked(t) ==
    \E outcome \in SaveOutcome :
        LET f == Top(t)
            ws == [window_states EXCEPT ![f.arg.window_type] = f.arg.state]
        IN  /\ window_states' = ws
            /\ window_state_file' =
                   save_window_states(ws, window_state_file, outcome)
            /\ lock' = {}
            /\ stack' = SetTop(t, [f EXCEPT
                            !.pc = "after",
                            !.loc = [old_state |->
                                        window_states[f.arg.window_type]]])
            /\ UNCHANGED <<session, result, now, retry,
                   widget, singleton, notified>>

\* Listeners are notified outside the lock; the method returns True.
set_window_state_after(t) ==
    /\ stack' = SetTop(t, Returning(Top(t), TRUE))
    /\ UNCHANGED <<session, windows, lock, result, now, retry,
                   widget, singleton, notified>>

\* ----------------------------------------------------- start_recording
\* A variant that forgets to record the owner window (used to test the
\* claims about the session fields).
start_recording_locked_no_owner(t) ==
    LET f == Top(t) IN
    IF recording_state # "idle" THEN
        /\ stack' = Invoke(t, f, "conflict", Frame("get_recording_state", <<>>))
        /\ UNCHANGED <<session, windows, lock, result, now, retry,
                   widget, singleton, notified>>
    ELSE
        /\ recording_state' = "recording"
        /\ recording_session_id' = Some(now)
        /\ recording_start_time' = Some(now)
        /\ stack' =
             IF f.arg.initiated_by = "main"
             THEN Invoke(t, [f EXCEPT !.loc = [session_id |-> Some(now)]],
                         "main_visible",
                         Frame("set_window_state",
                               [window_type |-> "main", state |-> "visible"]))
             ELSE Invoke(t, [f EXCEPT !.loc = [session_id |-> Some(now)]],
                         "widget_focused",
                         Frame("set_window_state",
                               [window_type |-> "widget", state |-> "focused"]))
        /\ UNCHANGED <<active_window, windows, lock, result, now, retry,
                   widget, singleton, notified>>

\* with self._lock: the idle check; on a conflict the result dict is built by
\* calling self.get_recording_state(); otherwise the session fields are set
\* and self.set_window_state(...) is called, all inside the `with` block.
start_recording_locked(t) ==
    LET f == Top(t) IN
    IF recording_state # "idle" THEN
        /\ stack' = Invoke(t, f, "conflict", Frame("get_recording_state", <<>>))
        /\ UNCHANGED <<session, windows, lock, result, now, retry,
                   widget, singleton, notified>>
    ELSE
        /\ recording_state' = "recording"
        /\ active_window' = Some(f.arg.initiated_by)
        /\ recording_session_id' = Some(now)
        /\ recording_start_time' = Some(now)
        /\ stack' =
             IF f.arg.initiated_by = "main"
             THEN Invoke(t, [f EXCEPT !.loc = [session_id |-> Some(now)]],
                         "main_visible",
                         Frame("set_window_state",
                               [window_type |-> "main", state |-> "visible"]))
             ELSE Invoke(t, [f EXCEPT !.loc = [session_id |-> Some(now)]],
                         "widget_focused",
                         Frame("set_window_state",
                               [window_type |-> "widget", state |-> "focused"]))
        /\ UNCHANGED <<windows, lock, result, now, retry,
                   widget, singleton, notified>>

\* A method called by start_recording has returned v.
start_recording_resume(t) ==
    LET c == Caller(t)
        v == Top(t).ret
    IN  CASE c.k = "conflict" ->
               \* return {...} leaves the `with` block: the lock is released
               /\ lock' = {}
               /\ stack' = PopTo(t, Returning(c,
                      [success |-> FALSE,
                       error |-> <<"Recording already in progress", v.state>>,
                       current_state |-> v]))
               /\ UNCHANGED <<session, windows, result, now, retry,
                   widget, singleton, notified>>
          [] c.k = "main_visible" ->
               /\ stack' = [stack EXCEPT ![t] =
                      Append(Append(SubSeq(@, 1, Len(@) - 2),
                                    [c EXCEPT !.k = "widget_focused"]),
                             Frame("set_window_state",
                                   [window_type |-> "widget",
                                    state |-> "focused"]))]
               /\ UNCHANGED <<session, windows, lock, result, now, retry,
                   widget, singleton, notified>>
          [] c.k = "widget_focused" ->
               \* end of the `with` block
               /\ lock' = {}
               /\ stack' = PopTo(t, [c EXCEPT !.pc = "after", !.k = ""])
               /\ UNCHANGED <<session, windows, result, now, retry,
                   widget, singleton, notified>>
          [] c.k = "recording_info" ->
               \* the listeners are notified, then the method returns
               /\ notified' = Append(notified, <<"recording_started",
                                                 c.loc.session_id>>)
               /\ stack' = PopTo(t, Returning(c,
                      [success |-> TRUE,
                       session_id |-> c.loc.session_id,
                       recording_info |-> v]))
               /\ UNCHANGED <<session, windows, lock, result, now, retry,
                   widget, singleton>>

\* After the `with` block: recording_info = self.get_recording_state().
start_recording_after(t) ==
    /\ stack' = Invoke(t, Top(t), "recording_info",
                       Frame("get_recording_state", <<>>))
    /\ UNCHANGED <<session, windows, lock, result, now, retry,
                   widget, singleton, notified>>

\* ------------------------------------------------------ stop_recording
stop_recording_locked(t) ==
    /\ stack' = Invoke(t, Top(t),
                       IF recording_state # "recording" THEN "conflict"
                       ELSE "session_info",
                       Frame("get_recording_state", <<>>))
    /\ UNCHANGED <<session, windows, lock, result, now, retry,
                   widget, singleton, notified>>

stop_recording_resume(t) ==
    LET c == Caller(t)
        v == Top(t).ret
    IN  CASE c.k = "conflict" ->
               /\ lock' = {}
               /\ stack' = PopTo(t, Returning(c,
                      [success |-> FALSE,
                       error |-> <<"No recording in progress", v.state>>,
                       current_state |-> v]))
               /\ UNCHANGED <<session, windows, result, now, retry,
                   widget, singleton, notified>>
          [] c.k = "session_info" ->
               /\ recording_state' = "processing"
               /\ lock' = {}
               /\ stack' = PopTo(t, [c EXCEPT
                      !.pc = "after", !.k = "",
                      !.loc = [session_info |-> v,
                               session_id |-> recording_session_id]])
               /\ UNCHANGED <<active_window, recording_session_id,
                              recording_start_time, windows, result, now,
                              retry,
                   widget, singleton, notified>>

\* After the `with` block: the listeners are notified, the method returns.
stop_recording_after(t) ==
    LET f == Top(t) IN
    /\ notified' = Append(notified, <<"recording_stopped", f.loc.session_id>>)
    /\ stack' = SetTop(t, Returning(f,
           [success |-> TRUE,
            session_id |-> f.loc.session_id,
            session_info |-> f.loc.session_info]))
    /\ UNCHANGED <<session, windows, lock, result, now, retry,
                   widget, singleton>>

\* -------------------------------------------------- complete_recording
complete_recording_locked(t) ==
    /\ stack' = Invoke(t, Top(t),
                       IF recording_state # "processing" THEN "conflict"
                       ELSE "session_info",
                       Frame("get_recording_state", <<>>))
    /\ UNCHANGED <<session, windows, lock, result, now, retry,
                   widget, singleton, notified>>

complete_recording_resume(t) ==
    LET c == Caller(t)
        v == Top(t).ret
    IN  CASE c.k = "conflict" ->
               /\ lock' = {}
               /\ stack' = PopTo(t, Returning(c,
                      [success |-> FALSE,
                       error |-> <<"No processing in progress", v.state>>,
                       current_state |-> v]))
               /\ UNCHANGED <<session, windows, result, now, retry,
                   widget, singleton, notified>>
          [] c.k = "session_info" ->
               /\ recording_state' = "idle"
               /\ active_window' = None
               /\ recording_session_id' = None
               /\ recording_start_time' = None
               /\ lock' = {}
               /\ stack' = PopTo(t, [c EXCEPT
                      !.pc = "after", !.k = "",
                      !.loc = [session_info |-> v,
                               session_id |-> recording_session_id]])
               /\ UNCHANGED <<windows, result, now, retry,
                   widget, singleton, notified>>

\* After the `with` block: the listeners are notified, the method returns.
complete_recording_after(t) ==
    LET f == Top(t) IN
    /\ notified' = Append(notified, <<"recording_completed",
                                      f.loc.session_id>>)
    /\ stack' = SetTop(t, Returning(f,
           [success |-> TRUE,
            session_id |-> f.loc.session_id,
            recording_success |-> f.arg.success,
            session_info |-> f.loc.session_info]))
    /\ UNCHANGED <<session, windows, lock, result, now, retry,
                   widget, singleton>>

\* ------------------------------------------------------ get_full_state
\* with self._lock: return {'recording': self.get_recording_state(), ...,
\*                          'button_states': self.get_button_states(), ...}
get_full_state_locked(t) ==
    /\ stack' = Invoke(t, Top(t), "recording",
                       Frame("get_recording_state", <<>>))
    /\ UNCHANGED <<session, windows, lock, result, now, retry,
                   widget, singleton, notified>>

get_full_state_resume(t) ==
    LET c == Caller(t)
        v == Top(t).ret
    IN  CASE c.k = "recording" ->
               /\ stack' = [stack EXCEPT ![t] =
                      Append(Append(SubSeq(@, 1, Len(@) - 2),
                                    [c EXCEPT !.k = "button_states",
                                              !.loc = [recording |-> v,
                                                       windows |-> window_states]]),
                             Frame("get_button_states", <<>>))]
               /\ UNCHANGED <<session, windows, lock, result, now, retry,
                   widget, singleton, notified>>
          [] c.k = "button_states" ->
               /\ lock' = {}
               /\ stack' = PopTo(t, Returning(c,
                      [recording |-> c.loc.recording,
                       windows |-> c.loc.windows,
                       button_states |-> v]))
               /\ UNCHANGED <<session, windows, result, now, retry,
                   widget, singleton, notified>>

\* --------------------------------------------------------- reset_state
\* with self._lock: clear the session, hide both windows, save the file.
reset_state_locked(t) ==
    \E outcome \in SaveOutcome :
        LET ws == [w \in WindowType |-> "hidden"] IN
        /\ recording_state' = "idle"
        /\ active_window' = None
        /\ recording_session_id' = None
        /\ recording_start_time' = None
        /\ window_states' = ws
        /\ window_state_file' =
               save_window_states(ws, window_state_file, outcome)
        /\ lock' = {}
        /\ stack' = SetTop(t, [Top(t) EXCEPT !.pc = "after"])
        /\ UNCHANGED <<result, now, retry,
                   widget, singleton, notified>>

\* After the `with` block: 'current_state': self.get_full_state().
reset_state_after(t) ==
    /\ stack' = Invoke(t, Top(t), "current_state",
                       Frame("get_full_state", <<>>))
    /\ UNCHANGED <<session, windows, lock, result, now, retry,
                   widget, singleton, notified>>

reset_state_resume(t) ==
    /\ stack' = PopTo(t, Returning(Caller(t),
           [success |-> TRUE, current_state |-> Top(t).ret]))
    /\ UNCHANGED <<session, windows, lock, result, now, retry,
                   widget, singleton, notified>>

\* ------------------------------------------------- get_widget_position
\* _save_widget_config: the file after the write; the exception of a failed
\* write is caught and logged inside the method, the caller sees nothing.
save_widget_config(position, file, outcome) ==
    CASE outcome = "ok" -> Some(position)
      [] outcome = "open_failed" -> file
      [] outcome = "write_failed" -> None

\* with self._lock: return self.widget_config['position'].copy()
get_widget_position_locked(t) ==
    /\ lock' = {}
    /\ stack' = SetTop(t, Returning(Top(t), widget_position))
    /\ UNCHANGED <<session, windows, widget, result, now, retry, singleton, notified>>

\* ------------------------------------------------- set_widget_position
\* with self._lock: remember the old position, set the new one, save the
\* file. `saved` notes how the write inside _save_widget_config went.
set_widget_position_locked(t) ==
    \E outcome \in SaveOutcome :
        LET f == Top(t)
            position == <<f.arg.x, f.arg.y>>
        IN  /\ widget_position' = position
            /\ widget_config_file' =
                   save_widget_config(position, widget_config_file, outcome)
            /\ lock' = {}
            /\ stack' = SetTop(t, [f EXCEPT
                            !.pc = "after",
                            !.loc = [old_position |-> widget_position,
                                     saved |-> outcome]])
            /\ UNCHANGED <<session, windows, last_position_set, result, now,
                           retry, singleton, notified>>

\* Listeners are notified outside the lock (a listener's exception is caught
\* in _notify_position_change); the method returns True.
set_widget_position_after(t) ==
    /\ stack' = SetTop(t, Returning(Top(t), TRUE))
    /\ last_position_set' = Some(<<Top(t).arg.x, Top(t).arg.y>>)
    /\ UNCHANGED <<session, windows, widget_position, widget_config_file,
                   lock, result, now, retry, singleton, notified>>

\* ------------------------------------------------- POST /api/transcribe
\* The ways through transcribe_audio: the three early returns, the
\* transcription that succeeds, the one that fails after its retries, the
\* error of the API call and the exception caught by the outer handler.
TranscribePaths ==
    {"api_unavailable", "no_audio", "no_selection", "transcribed", "failed",
     "api_error", "exception"}

\* window_manager.get_recording_state() at the entry of the handler.
transcribe_audio_after(t) ==
    /\ stack' = Invoke(t, Top(t), "recording_state",
                       Frame("get_recording_state", <<>>))
    /\ UNCHANGED <<session, windows, lock, result, now, retry,
                   widget, singleton, notified>>

transcribe_audio_resume(t) ==
    LET c == Caller(t)
        v == Top(t).ret
    IN  CASE c.k = "recording_state" ->
               \* has_active_session, then the request is served along one
               \* of its paths, which ends with complete_recording if a
               \* session was active
               \E path \in TranscribePaths :
                   LET has_active_session ==
                           v.state \in {"recording", "processing"}
                       f == [c EXCEPT !.loc =
                                [has_active_session |-> has_active_session,
                                 path |-> path]]
                   IN  /\ stack' =
                              IF has_active_session
                              THEN [stack EXCEPT ![t] =
                                      Append(Append(SubSeq(@, 1, Len(@) - 2),
                                                    [f EXCEPT !.k = "completed"]),
                                             Frame("complete_recording",
                                                   [success |->
                                                      path = "transcribed"]))]
                              ELSE PopTo(t, Returning(f, [path |-> path]))
                       /\ UNCHANGED <<session, windows, lock, result, now,
                                      retry, widget, singleton, notified>>
          [] c.k = "completed" ->
               \* the value of complete_recording is dropped; return jsonify
               /\ stack' = PopTo(t, Returning(c, [path |-> c.loc.path]))
               /\ UNCHANGED <<session, windows, lock, result, now, retry,
                              widget, singleton, notified>>

\* --------------------------------------------------- the public calls
\* A request thread with no call in progress enters a public method.
Call(t, op, arg) ==
    /\ stack[t] = <<>>
    /\ stack' = [stack EXCEPT ![t] = <<Frame(op, arg)>>]
    /\ result' = [result EXCEPT ![t] = NoResult]
    /\ UNCHANGED <<session, windows, lock, now, retry,
                   widget, singleton, notified>>

get_recording_state(t) == Call(t, "get_recording_state", <<>>)
get_button_states(t) == Call(t, "get_button_states", <<>>)
get_full_state(t) == Call(t, "get_full_state", <<>>)
set_window_state(t, window_type, state) ==
    Call(t, "set_window_state", [window_type |-> window_type, state |-> state])
start_recording(t, initiated_by) ==
    Call(t, "start_recording", [initiated_by |-> initiated_by])
stop_recording(t) == Call(t, "stop_recording", <<>>)
complete_recording(t, success) ==
    Call(t, "complete_recording", [success |-> success])
reset_state(t) == Call(t, "reset_state", <<>>)
\* A request thread serves POST /api/transcribe: the handler takes no lock of
\* its own, it starts on the code that calls the coordinator.
transcribe_audio(t) ==
    /\ stack[t] = <<>>
    /\ stack' = [stack EXCEPT ![t] =
                    <<[Frame("transcribe_audio", <<>>) EXCEPT !.pc = "after"]>>]
    /\ result' = [result EXCEPT ![t] = NoResult]
    /\ UNCHANGED <<session, windows, lock, now, retry,
                   widget, singleton, notified>>
get_widget_position(t) == Call(t, "get_widget_position", <<>>)
set_widget_position(t, x, y) ==
    Call(t, "set_widget_position", [x |-> x, y |-> y])

\* ------------------------------------------------- the steps of a call
\* `with self._lock:` threading.Lock.acquire() blocks until the lock is
\* free, whoever holds it: also when the caller itself does.
Acquire(t) ==
    /\ InCall(t)
    /\ Top(t).pc = "acquire"
    /\ lock = {}
    /\ lock' = {t}
    /\ stack' = SetTop(t, [Top(t) EXCEPT !.pc = "locked"])
    /\ UNCHANGED <<session, windows, result, now, retry,
                   widget, singleton, notified>>

\* The body of the `with` block, up to its first method call or to its end.
Locked(t) ==
    /\ InCall(t)
    /\ Top(t).pc = "locked"
    /\ CASE Top(t).op = "get_recording_state" -> get_recording_state_locked(t)
         [] Top(t).op = "get_button_states" -> get_button_states_locked(t)
         [] Top(t).op = "set_window_state" -> set_window_state_locked(t)
         [] Top(t).op = "start_recording" -> start_recording_locked(t)
         [] Top(t).op = "stop_recording" -> stop_recording_locked(t)
         [] Top(t).op = "complete_recording" -> complete_recording_locked(t)
         [] Top(t).op = "get_full_state" -> get_full_state_locked(t)
         [] Top(t).op = "reset_state" -> reset_state_locked(t)
         [] Top(t).op = "get_widget_position" -> get_widget_position_locked(t)
         [] Top(t).op = "set_widget_position" -> set_widget_position_locked(t)

\* The code after the `with` block, up to its first method call or the return.
After(t) ==
    /\ InCall(t)
    /\ Top(t).pc = "after"
    /\ CASE Top(t).op = "get_button_states" -> get_button_states_after(t)
         [] Top(t).op = "set_window_state" -> set_window_state_after(t)
         [] Top(t).op = "start_recording" -> start_recording_after(t)
         [] Top(t).op = "stop_recording" -> stop_recording_after(t)
         [] Top(t).op = "complete_recording" -> complete_recording_after(t)
         [] Top(t).op = "reset_state" -> reset_state_after(t)
         [] Top(t).op = "set_widget_position" -> set_widget_position_after(t)
         [] Top(t).op = "transcribe_audio" -> transcribe_audio_after(t)

\* A frame returns: to the request thread, or to the method that called it,
\* which goes on from the call.
Return(t) ==
    /\ InCall(t)
    /\ Top(t).pc = "return"
    /\ IF Depth(t) = 1 THEN
           /\ result' = [result EXCEPT ![t] =
                            [kind |-> Top(t).op, arg |-> Top(t).arg,
                             value |-> Top(t).ret]]
           /\ stack' = [stack EXCEPT ![t] = <<>>]
           /\ UNCHANGED <<session, windows, lock, now, retry,
                   widget, singleton, notified>>
       ELSE
           CASE Caller(t).op = "start_recording" -> start_recording_resume(t)
             [] Caller(t).op = "stop_recording" -> stop_recording_resume(t)
             [] Caller(t).op = "complete_recording" ->
                    complete_recording_resume(t)
             [] Caller(t).op = "get_full_state" -> get_full_state_resume(t)
             [] Caller(t).op = "reset_state" -> reset_state_resume(t)
             [] Caller(t).op = "transcribe_audio" -> transcribe_audio_resume(t)

\* time.time() advances.
Tick ==
    /\ now < MaxClock
    /\ now' = now + 1
    /\ UNCHANGED <<session, windows, lock, stack, result, retry,
                   widget, singleton, notified>>

\* ------------------------------------------------------ specifications
\* The set_window_state calls request threads make: the two the coordinator
\* itself makes when a recording starts from the main window.
WindowStateInputs == {<<"main", "visible">>, <<"widget", "focused">>}

\* TranscriptionRetryHandler.__init__ with its defaults; delays are in
\* milliseconds (base_delay = 1.0 s), timeout in seconds.
DefaultHandler == [max_attempts |-> 3, base_delay |-> 1000, timeout |-> 30]

\* No timeout has been computed and no notification built.
NoTimeout ==
    /\ audio_duration = None
    /\ dynamic_timeout = None
    /\ api_timeout = None
NoNotification == notification = None

\* The position a new WindowManager has before widget_state.json is loaded.
DefaultPosition == <<100, 100>>

\* No widget position has been set and widget_state.json does not exist.
WidgetInit ==
    /\ widget_position = DefaultPosition
    /\ widget_config_file = None
    /\ last_position_set = None

\* No thread is inside get_shared_window_manager.
NoGetter == [t \in Threads |-> [pc |-> "idle", new |-> None, ret |-> None]]

\* The process's WindowManager has been created by an earlier call of
\* get_shared_window_manager.
SharedInstanceCreated ==
    /\ window_manager_instance = Some(1)
    /\ constructed = 1
    /\ getter = NoGetter

\* No transcription is being retried: the handler's methods are not running.
HandlerIdle ==
    /\ error = <<>>
    /\ classified = None
    /\ handler = DefaultHandler
    /\ attempt = 1
    /\ calls = <<>>
    /\ sleeps = <<>>
    /\ last_error = None
    /\ retry_reason = None
    /\ retry_result = None
    /\ delay_reason = None
    /\ delays = <<>>
    /\ NoTimeout
    /\ NoNotification

\* WindowManager.__init__ on a fresh configuration directory.
WindowManagerInit ==
    /\ recording_state = "idle"
    /\ active_window = None
    /\ recording_session_id = None
    /\ recording_start_time = None
    /\ window_states = [w \in WindowType |-> "hidden"]
    /\ window_state_file = None
    /\ WidgetInit
    /\ notified = <<>>
    /\ lock = {}
    /\ stack = [t \in Threads |-> <<>>]
    /\ result = [t \in Threads |-> NoResult]
    /\ now = 1

Init == WindowManagerInit /\ HandlerIdle /\ SharedInstanceCreated

Proceed(t) == Acquire(t) \/ Locked(t) \/ After(t) \/ Return(t)

Next ==
    \/ \E t \in Threads :
        \/ get_recording_state(t)
        \/ get_button_states(t)
        \/ get_full_state(t)
        \/ \E i \in WindowStateInputs : set_window_state(t, i[1], i[2])
        \/ \E w \in WindowType : start_recording(t, w)
        \/ stop_recording(t)
        \/ \E success \in BOOLEAN : complete_recording(t, success)
        \/ reset_state(t)
        \/ Acquire(t)
        \/ Locked(t)
        \/ After(t)
        \/ Return(t)
    \/ Tick

Spec == Init /\ [][Next]_vars

\* The operating system runs every thread that can run.
FairSpec == Spec /\ \A t \in Threads : WF_vars(Proceed(t))

\* The recording flow of a client: it starts a recording, stops it, and posts
\* the audio to /api/transcribe.
TranscribeNext ==
    \/ \E t \in Threads :
        \/ \E w \in WindowType : start_recording(t, w)
        \/ stop_recording(t)
        \/ transcribe_audio(t)
        \/ Acquire(t)
        \/ Locked(t)
        \/ After(t)
        \/ Return(t)
    \/ Tick

SpecTranscribe == Init /\ [][TranscribeNext]_vars

FairSpecTranscribe ==
    SpecTranscribe /\ \A t \in Threads : WF_vars(Proceed(t))

\* The derived button states as a function: the coordinator's fields are
\* drawn from their types, and request threads call get_button_states.
ButtonsInit ==
    /\ recording_state \in RecordingState
    /\ active_window \in OptionalWindow
    /\ recording_session_id = None
    /\ recording_start_time = None
    /\ window_states \in [WindowType -> WindowState]
    /\ window_state_file = None
    /\ WidgetInit
    /\ notified = <<>>
    /\ lock = {}
    /\ stack = [t \in Threads |-> <<>>]
    /\ result = [t \in Threads |-> NoResult]
    /\ now = 1
    /\ HandlerIdle
    /\ SharedInstanceCreated

ButtonsNext ==
    \E t \in Threads :
        \/ get_button_states(t)
        \/ Acquire(t)
        \/ Locked(t)
        \/ After(t)
        \/ Return(t)

SpecButtons == ButtonsInit /\ [][ButtonsNext]_vars

\* ------------------------------------------------------ process restart
\* _load_widget_config: the saved position replaces the default one when
\* widget_state.json exists and can be parsed.
load_widget_config(file) == IF IsNone(file) THEN DefaultPosition ELSE file[1]

\* _load_window_states: the saved states replace the default ones when
\* window_states.json exists and can be parsed.
load_window_states(file) ==
    IF IsNone(file) THEN [w \in WindowType |-> "hidden"] ELSE file[1]

\* The process ends, its request threads with it, and a new process
\* constructs its WindowManager on the same configuration directory.
Restart ==
    /\ recording_state' = "idle"
    /\ active_window' = None
    /\ recording_session_id' = None
    /\ recording_start_time' = None
    /\ window_states' = load_window_states(window_state_file)
    /\ widget_position' = load_widget_config(widget_config_file)
    /\ lock' = {}
    /\ stack' = [t \in Threads |-> <<>>]
    /\ result' = [t \in Threads |-> NoResult]
    /\ UNCHANGED <<window_state_file, widget_config_file, last_position_set,
                   now, retry, singleton, notified>>

\* The positions request threads set: the one of test_set_widget_position
\* and another one.
WidgetPositions == {<<200, 150>>, <<300, 50>>}

\* Request threads read and set the widget position, and the process is
\* restarted now and then.
WidgetNext ==
    \/ \E t \in Threads :
        \/ get_widget_position(t)
        \/ \E p \in WidgetPositions : set_widget_position(t, p[1], p[2])
        \/ Acquire(t)
        \/ Locked(t)
        \/ After(t)
        \/ Return(t)
    \/ Restart

SpecWidget == Init /\ [][WidgetNext]_vars

\* ---------------------------------------------------------------- claims
\* Thread t is inside a public call of `op` / has got the result of one.
Pending(t, op) == InCall(t) /\ stack[t][1].op = op
Returned(t, op) == ~InCall(t) /\ result[t].kind = op
\* Thread t has called `op` and not yet started on it.
Entered(t, op) == Pending(t, op) /\ Depth(t) = 1 /\ Top(t).pc = "acquire"
\* Thread t, in `op`, holds the lock and is about to run the `with` block.
Deciding(t, op) == Pending(t, op) /\ Depth(t) = 1 /\ Top(t).pc = "locked"

\* C5: in every reachable state the owner window is set if and only if the
\* recording state is not idle, and so are the session id and the start time.
C5_OwnerIffNotIdle ==
    /\ (active_window # None) <=> (recording_state # "idle")
    /\ (recording_session_id # None) <=> (recording_state # "idle")
    /\ (recording_start_time # None) <=> (recording_state # "idle")

\* C5 witness: a start from the widget has set the session fields.
C5_Witness ==
    /\ recording_state = "recording"
    /\ active_window = Some("widget")
    /\ recording_session_id # None
    /\ \E t \in Threads : Pending(t, "start_recording")

\* C10: what get_button_states returns is determined by the recording state
\* alone: Record/enabled for both windows in idle, both disabled in
\* processing, Error/disabled for both in error, and the same dict whatever
\* the owner window is (the window visual states are not read at all).
C10_ButtonsFunctionOfState ==
    \A t \in Threads :
        Returned(t, "get_button_states") =>
            LET b == result[t].value IN
            /\ recording_state = "idle" =>
                   /\ b.main.enabled /\ b.main.text = "Record"
                   /\ b.widget.enabled /\ b.widget.text = "Record"
            /\ recording_state = "processing" =>
                   ~b.main.enabled /\ ~b.widget.enabled
            /\ recording_state = "error" =>
                   /\ ~b.main.enabled /\ b.main.text = "Error"
                   /\ ~b.widget.enabled /\ b.widget.text = "Error"
            /\ \A aw \in OptionalWindow :
                   b = button_states(recording_state, aw)

\* C10 witness: the button states were returned in state processing, with
\* an owner window and a window that is not hidden.
C10_Witness ==
    \E t \in Threads :
        /\ Returned(t, "get_button_states")
        /\ recording_state = "processing"
        /\ active_window = Some("widget")
        /\ window_states["main"] = "focused"

\* C1: a start_recording called while the recording state is not idle is
\* rejected: the caller gets {success: false, ...} (unless the session has
\* ended in the meantime and the state is idle again).
C1_StartWhileBusyIsRejected ==
    \A t \in Threads :
        (Entered(t, "start_recording") /\ recording_state # "idle")
            ~> \/ Returned(t, "start_recording") /\ ~result[t].value.success
               \/ recording_state = "idle"

\* C2: no call blocks forever: while calls are in progress, some thread
\* inside a call can take its next step.
C2_EveryCallCanFinish ==
    (\E t \in Threads : InCall(t)) => ENABLED (\E t \in Threads : Proceed(t))

\* C3: two start_recording calls made concurrently from idle both return,
\* exactly one of them accepted, and the accepted call's window is the owner.
C3_ConcurrentStartsOneAccepted ==
    \A t, u \in Threads :
        (/\ t # u
         /\ Entered(t, "start_recording")
         /\ Entered(u, "start_recording")
         /\ recording_state = "idle")
            ~> /\ Returned(t, "start_recording")
               /\ Returned(u, "start_recording")
               /\ result[t].value.success # result[u].value.success
               /\ \E a \in {t, u} :
                      /\ result[a].value.success
                      /\ result[a].value.recording_info.active_window
                             = Some(result[a].arg.initiated_by)

\* C4: a start_recording that finds the state idle returns success with a
\* session id.
C4_StartFromIdleSucceeds ==
    \A t \in Threads :
        (Deciding(t, "start_recording") /\ recording_state = "idle")
            ~> /\ Returned(t, "start_recording")
               /\ result[t].value.success
               /\ result[t].value.session_id # None

\* C6: reset_state, called in any state, returns a success result.
C6_ResetReturnsSuccess ==
    \A t \in Threads :
        Entered(t, "reset_state")
            ~> Returned(t, "reset_state") /\ result[t].value.success

\* C7: stop_recording returns success when it finds the state recording and
\* a rejection {success: false, ...} when it finds any other state.
C7_StopAcceptedOnlyWhenRecording ==
    \A t \in Threads, rs \in RecordingState :
        (Deciding(t, "stop_recording") /\ recording_state = rs)
            ~> /\ Returned(t, "stop_recording")
               /\ result[t].value.success = (rs = "recording")

\* C8: complete_recording returns success when it finds the state processing
\* and a rejection {success: false, ...} when it finds any other state.
C8_CompleteAcceptedOnlyWhenProcessing ==
    \A t \in Threads, rs \in RecordingState :
        (Deciding(t, "complete_recording") /\ recording_state = rs)
            ~> /\ Returned(t, "complete_recording")
               /\ result[t].value.success = (rs = "processing")

\* C9: get_button_states called while the state is recording reports the
\* main button disabled and the widget button enabled and active (unless the
\* recording has ended in the meantime).
C9_ButtonsWhileRecording ==
    \A t \in Threads :
        (Entered(t, "get_button_states") /\ recording_state = "recording")
            ~> \/ /\ Returned(t, "get_button_states")
                  /\ ~result[t].value.main.enabled
                  /\ result[t].value.widget.enabled
                  /\ result[t].value.widget.active_control
               \/ recording_state # "recording"

(***************************************************************************)
(* The retry engine (src/backend/retry_logic.py, TranscriptionRetryHandler) *)
(*                                                                         *)
(* An error description is a sequence of words.  `keyword in error_str` is *)
(* Python's substring test: here, the keyword's words occur next to each   *)
(* other in the description.  str.lower() maps every word to its lower-case *)
(* form.  Delays are in milliseconds.                                      *)
(***************************************************************************)
\* ------------------------------------------------------------------ bounds
MaxPhrases == 2

\* class RetryReason: the values of the enumeration.
RetryReason == {"network_error", "api_timeout", "rate_limit", "server_error",
                "auth_error", "unknown_error"}

\* The keyword lists of should_retry, in the order the code tests them.
network_keywords ==
    {<<"connection">>, <<"network">>, <<"timeout">>, <<"unreachable">>,
     <<"connection", "reset">>, <<"connection", "refused">>}
rate_limit_keywords ==
    {<<"rate", "limit">>, <<"too", "many", "requests">>, <<"429">>}
server_keywords ==
    {<<"internal", "server", "error">>, <<"500">>, <<"502">>, <<"503">>,
     <<"504">>, <<"server", "error">>, <<"service", "unavailable">>}
timeout_keywords ==
    {<<"timeout">>, <<"timed", "out">>, <<"read", "timeout">>}
auth_keywords ==
    {<<"unauthorized">>, <<"401">>, <<"invalid", "api", "key">>,
     <<"authentication">>}
client_keywords ==
    {<<"400">>, <<"403">>, <<"404">>, <<"bad", "request">>, <<"forbidden">>,
     <<"not", "found">>}

\* str.lower(), word by word.
lower_word(w) ==
    CASE w = "Connection" -> "connection"
      [] w = "Rate" -> "rate"
      [] w = "Internal" -> "internal"
      [] w = "Unauthorized" -> "unauthorized"
      [] w = "Invalid" -> "invalid"
      [] w = "API" -> "api"
      [] w = "Bad" -> "bad"
      [] w = "Request" -> "request"
      [] OTHER -> w
lower(s) == [i \in 1..Len(s) |-> lower_word(s[i])]

\* `keyword in error_str`
Contains(error_str, keyword) ==
    \E i \in 1..(Len(error_str) - Len(keyword) + 1) :
        SubSeq(error_str, i, i + Len(keyword) - 1) = keyword

\* any(keyword in error_str for keyword in keywords)
any(error_str, keywords) == \E keyword \in keywords : Contains(error_str, keyword)

\* The rules of should_retry on the lower-cased description: first match wins.
first_matching_rule(error_str) ==
    IF any(error_str, network_keywords) THEN <<TRUE, "network_error">>
    ELSE IF any(error_str, rate_limit_keywords) THEN <<TRUE, "rate_limit">>
    ELSE IF any(error_str, server_keywords) THEN <<TRUE, "server_error">>
    ELSE IF any(error_str, timeout_keywords) THEN <<TRUE, "api_timeout">>
    ELSE IF any(error_str, auth_keywords) THEN <<FALSE, "auth_error">>
    ELSE IF any(error_str, client_keywords) THEN <<FALSE, "unknown_error">>
    ELSE <<TRUE, "unknown_error">>

\* should_retry without the lower(): upper-case descriptions escape the rules.
should_retry_case_sensitive(err) == first_matching_rule(err)

\* should_retry that gives up on every error of unknown category.
should_retry_unknown_is_final(err) ==
    LET rule == first_matching_rule(lower(err))
    IN  IF rule[2] = "unknown_error" THEN <<FALSE, rule[2]>> ELSE rule

\* TranscriptionRetryHandler.should_retry: (should_retry, retry_reason).
should_retry(err) == first_matching_rule(lower(err))

\* The descriptions the tests raise, and a description no rule matches.
TestPhrases ==
    {<<"Connection", "timeout">>, <<"Rate", "limit", "exceeded">>,
     <<"Internal", "server", "error">>, <<"Unauthorized", "access">>,
     <<"Bad", "request">>, <<"Invalid", "API", "key">>, <<"Request", "failed">>}

Phrases ==
    network_keywords \cup rate_limit_keywords \cup server_keywords
      \cup timeout_keywords \cup auth_keywords \cup client_keywords
      \cup TestPhrases

\* The descriptions made of at most n phrases.
RECURSIVE DescriptionsOf(_)
DescriptionsOf(n) ==
    IF n = 0 THEN {<<>>}
    ELSE LET shorter == DescriptionsOf(n - 1)
         IN  shorter \cup {d \o p : d \in shorter, p \in Phrases}

Descriptions == DescriptionsOf(MaxPhrases)

\* An exception with some description reaches should_retry.
ShouldRetryInit ==
    /\ WindowManagerInit
    /\ error \in Descriptions
    /\ classified = None
    /\ handler = DefaultHandler
    /\ attempt = 1
    /\ calls = <<>>
    /\ sleeps = <<>>
    /\ last_error = None
    /\ retry_reason = None
    /\ retry_result = None
    /\ delay_reason = None
    /\ delays = <<>>
    /\ NoTimeout
    /\ NoNotification
    /\ SharedInstanceCreated

ShouldRetry ==
    /\ classified = None
    /\ classified' = Some(should_retry(error))
    /\ UNCHANGED <<coordinator, singleton, error, handler, retry_loop, backoff,
                   timeouts, notification>>

SpecShouldRetry == ShouldRetryInit /\ [][ShouldRetry]_vars

\* ------------------------------------------------- claims: should_retry
\* The description (lower-cased, as should_retry reads it) mentions one of
\* the keywords.
Mentions(keywords) == any(lower(error), keywords)

\* should_retry has returned (retryable, reason) for the description.
ClassifiedAs(retryable, reason) == classified = Some(<<retryable, reason>>)

connectivity_keywords == network_keywords \ {<<"timeout">>}

\* C13: a description containing "429" is classified (retryable,
\* rate_limit), whatever else it contains; stated for the descriptions that
\* name no connectivity problem (connection, network, unreachable), for which
\* the rate-limit rule is the first that can apply.
C13_RateLimitOn429 ==
    (/\ classified # None
     /\ Mentions({<<"429">>})
     /\ ~Mentions(connectivity_keywords))
        => ClassifiedAs(TRUE, "rate_limit")

\* C14: a description containing a timeout phrase (timeout, timed out, read
\* timeout) and no connectivity, rate-limit or server-error phrase is
\* classified (retryable, timeout).
C14_TimeoutPhraseIsTimeout ==
    (/\ classified # None
     /\ Mentions(timeout_keywords)
     /\ ~Mentions(connectivity_keywords \cup rate_limit_keywords
                    \cup server_keywords))
        => ClassifiedAs(TRUE, "api_timeout")

\* ------------------------------------------------------ calculate_delay
\* ------------------------------------------------------------------ bounds
MaxBaseDelay == 10
MaxDelayAttempts == 7

\* `min(base_delay, 30.0)`: the cap, 30 seconds, in milliseconds.
MaxDelay == 30000

\* A handler's base_delay: 0 s, 0.1 s (the tests), ... 1.0 s (the default).
BaseDelays == {100 * i : i \in 0..MaxBaseDelay}

\* 2 ** n
RECURSIVE Pow2(_)
Pow2(n) == IF n = 0 THEN 1 ELSE 2 * Pow2(n - 1)

Min(a, b) == IF a <= b THEN a ELSE b

\* calculate_delay without the adjustment for the retry reason.
calculate_delay_same_for_all(self, attempt_number, reason) ==
    Min(self.base_delay * Pow2(attempt_number - 1), MaxDelay)

\* calculate_delay without the cap.
calculate_delay_uncapped(self, attempt_number, reason) ==
    LET base_delay == self.base_delay * Pow2(attempt_number - 1)
    IN  IF reason = "rate_limit" THEN base_delay * 3
        ELSE IF reason = "network_error" THEN base_delay \div 2
        ELSE base_delay

\* calculate_delay with a backoff that grows linearly with the attempt.
calculate_delay_linear(self, attempt_number, reason) ==
    LET base_delay == self.base_delay * attempt_number
        adjusted == IF reason = "rate_limit" THEN base_delay * 3
                    ELSE IF reason = "network_error" THEN base_delay \div 2
                    ELSE base_delay
    IN  Min(adjusted, MaxDelay)

\* TranscriptionRetryHandler.calculate_delay(attempt, retry_reason), for
\* attempt >= 1.  base_delay is a multiple of 100 ms, so `*= 0.5` is exact.
calculate_delay(self, attempt_number, reason) ==
    LET base_delay == self.base_delay * Pow2(attempt_number - 1)
        adjusted == IF reason = "rate_limit" THEN base_delay * 3
                    ELSE IF reason = "network_error" THEN base_delay \div 2
                    ELSE base_delay
    IN  Min(adjusted, MaxDelay)

\* A handler with some base delay (a negative one too: __init__ checks
\* nothing) is asked for the delays of attempts 1, 2, ... for one reason.
DelayInit ==
    /\ WindowManagerInit
    /\ error = <<>>
    /\ classified = None
    /\ handler \in [max_attempts : {DefaultHandler.max_attempts},
                    base_delay : BaseDelays \cup {-100},
                    timeout : {DefaultHandler.timeout}]
    /\ attempt = 1
    /\ calls = <<>>
    /\ sleeps = <<>>
    /\ last_error = None
    /\ retry_reason = None
    /\ retry_result = None
    /\ delay_reason \in RetryReason
    /\ delays = <<>>
    /\ NoTimeout
    /\ NoNotification
    /\ SharedInstanceCreated

CalculateDelay ==
    /\ Len(delays) < MaxDelayAttempts
    /\ delays' = Append(delays,
                        calculate_delay(handler, Len(delays) + 1, delay_reason))
    /\ UNCHANGED <<coordinator, singleton, classification, handler, retry_loop,
                   delay_reason, timeouts, notification>>

SpecDelay == DelayInit /\ [][CalculateDelay]_vars

\* C20: for a non-negative base delay and every attempt >= 1,
\* calculate_delay(attempt, network) is non-decreasing in attempt and at most
\* 30 seconds, and for every category the delay lies in [0, 30 s].
C20_DelayMonotoneAndBounded ==
    handler.base_delay >= 0 =>
        /\ \A a \in 1..Len(delays) : delays[a] >= 0 /\ delays[a] <= MaxDelay
        /\ delay_reason = "network_error" =>
               \A a \in 1..(Len(delays) - 1) : delays[a] <= delays[a + 1]

\* The network delays of a handler with the default base delay have grown
\* from half a second up to the cap.
C20_Witness ==
    /\ handler.base_delay = DefaultHandler.base_delay
    /\ delay_reason = "network_error"
    /\ Len(delays) > 1
    /\ delays[1] = 500
    /\ delays[Len(delays)] = MaxDelay
    /\ delays[Len(delays) - 1] < MaxDelay

\* ---------------------------------------------------- retry_transcription
\* ------------------------------------------------------------------ bounds
MaxAttempts == 3

\* str(x): the description of an exception, "None" for None.
str(o) == IF IsNone(o) THEN <<"None">> ELSE o[1]

\* class RetryResult: data, error and retry_reason are Optional.
RetryResult(success, data, err, attempts, reason) ==
    [success |-> success, data |-> data, error |-> err,
     attempts |-> attempts, retry_reason |-> reason]

\* The handlers the program builds: transcribe_with_retry passes a
\* max_attempts that the retry endpoints take from the request and cap from
\* above only (app.py 1014-1015, 1157-1158), so 0 arrives (and negative
\* values, which behave like 0).  base_delay is the default (1.0 s) or the
\* tests' (0.1 s).
Handlers ==
    [max_attempts : 0..MaxAttempts,
     base_delay : {100, DefaultHandler.base_delay},
     timeout : {DefaultHandler.timeout}]

\* What an invocation of the operation can do: raise an exception with one
\* of these descriptions, or return one of these values (a Python function
\* that returns no value returns None).
ErrorSamples == TestPhrases \cup {<<"timed", "out">>}
ReturnValues == {None, Some("transcription")}

FuncReturned(value) == [kind |-> "returned", value |-> value]
FuncRaised(err) == [kind |-> "raised", value |-> err]

\* retry_transcription is called on a handler.
RetryInit ==
    /\ WindowManagerInit
    /\ error = <<>>
    /\ classified = None
    /\ handler \in Handlers
    /\ attempt = 1
    /\ calls = <<>>
    /\ sleeps = <<>>
    /\ last_error = None
    /\ retry_reason = None
    /\ retry_result = None
    /\ delay_reason = None
    /\ delays = <<>>
    /\ NoTimeout
    /\ NoNotification
    /\ SharedInstanceCreated

\* One more pass of `for attempt in range(1, self.max_attempts + 1)`.
InLoop == IsNone(retry_result) /\ attempt <= handler.max_attempts

\* attempt_succeeds that reports the number of failures before the success.
attempt_succeeds_counting_failures(value) ==
    /\ InLoop
    /\ calls' = Append(calls, FuncReturned(value))
    /\ retry_result' = Some(RetryResult(TRUE, value, None, attempt - 1, None))
    /\ UNCHANGED <<coordinator, singleton, classification, handler, attempt, sleeps,
                   last_error, retry_reason, backoff,
                   timeouts, notification>>

\* attempt_succeeds that does not return: the loop goes on to the next attempt.
attempt_succeeds_keeps_going(value) ==
    /\ InLoop
    /\ calls' = Append(calls, FuncReturned(value))
    /\ attempt' = attempt + 1
    /\ UNCHANGED <<coordinator, singleton, classification, handler, sleeps,
                   last_error, retry_reason, retry_result, backoff,
                   timeouts, notification>>

\* The operation returns: the loop returns a successful RetryResult.
attempt_succeeds(value) ==
    /\ InLoop
    /\ calls' = Append(calls, FuncReturned(value))
    /\ retry_result' = Some(RetryResult(TRUE, value, None, attempt, None))
    /\ UNCHANGED <<coordinator, singleton, classification, handler, attempt, sleeps,
                   last_error, retry_reason, backoff,
                   timeouts, notification>>

\* attempt_fails that sleeps and goes on whatever should_retry answers.
attempt_fails_always_retried(err) ==
    /\ InLoop
    /\ calls' = Append(calls, FuncRaised(err))
    /\ last_error' = Some(err)
    /\ retry_reason' = Some(should_retry(err)[2])
    /\ retry_result' = None
    /\ sleeps' = IF attempt < handler.max_attempts
                 THEN Append(sleeps, calculate_delay(handler, attempt,
                                                     should_retry(err)[2]))
                 ELSE sleeps
    /\ attempt' = attempt + 1
    /\ UNCHANGED <<coordinator, singleton, classification, handler, backoff,
                   timeouts, notification>>

\* The operation raises: the `except Exception` block.  A failure that is
\* not retryable is returned; otherwise the loop sleeps, unless this was the
\* last attempt, and goes on.
attempt_fails(err) ==
    /\ InLoop
    /\ calls' = Append(calls, FuncRaised(err))
    /\ last_error' = Some(err)
    /\ LET classification_of_err == should_retry(err)
           retryable == classification_of_err[1]
           reason == classification_of_err[2]
       IN  /\ retry_reason' = Some(reason)
           /\ IF ~retryable THEN
                  /\ retry_result' = Some(RetryResult(FALSE, None,
                                                      Some(str(Some(err))),
                                                      attempt, Some(reason)))
                  /\ UNCHANGED <<attempt, sleeps>>
              ELSE
                  /\ retry_result' = None
                  /\ sleeps' = IF attempt < handler.max_attempts
                               THEN Append(sleeps,
                                           calculate_delay(handler, attempt,
                                                           reason))
                               ELSE sleeps
                  /\ attempt' = attempt + 1
    /\ UNCHANGED <<coordinator, singleton, classification, handler, backoff,
                   timeouts, notification>>

\* all_attempts_failed that reports the loop variable's successor value.
all_attempts_failed_counting_past_end ==
    /\ IsNone(retry_result)
    /\ attempt > handler.max_attempts
    /\ retry_result' = Some(RetryResult(FALSE, None, Some(str(last_error)),
                                        attempt, retry_reason))
    /\ UNCHANGED <<coordinator, singleton, classification, handler, attempt, calls,
                   sleeps, last_error, retry_reason, backoff,
                   timeouts, notification>>

\* all_attempts_failed that returns the failure without its error text.
all_attempts_failed_without_error ==
    /\ IsNone(retry_result)
    /\ attempt > handler.max_attempts
    /\ retry_result' = Some(RetryResult(FALSE, None, None,
                                        handler.max_attempts, retry_reason))
    /\ UNCHANGED <<coordinator, singleton, classification, handler, attempt, calls,
                   sleeps, last_error, retry_reason, backoff,
                   timeouts, notification>>

\* The loop is over without a return: "All retry attempts failed".
all_attempts_failed ==
    /\ IsNone(retry_result)
    /\ attempt > handler.max_attempts
    /\ retry_result' = Some(RetryResult(FALSE, None, Some(str(last_error)),
                                        handler.max_attempts, retry_reason))
    /\ UNCHANGED <<coordinator, singleton, classification, handler, attempt, calls,
                   sleeps, last_error, retry_reason, backoff,
                   timeouts, notification>>

\* create_retry_notification that offers a manual retry after every failure.
create_retry_notification_always_retryable(r) ==
    IF r.success THEN
        IF r.attempts > 1
        THEN [type |-> "success_after_retry", attempts |-> r.attempts,
              details |-> Some("recovered")]
        ELSE [type |-> "success", attempts |-> 1, details |-> None]
    ELSE [type |-> "error", attempts |-> r.attempts, details |-> r.error,
          retry_reason |-> r.retry_reason, can_retry_manually |-> TRUE]

\* create_retry_notification(result): the notification dictionary.  The
\* messages are represented by the number of attempts they name.
create_retry_notification(r) ==
    IF r.success THEN
        IF r.attempts > 1
        THEN [type |-> "success_after_retry", attempts |-> r.attempts,
              details |-> Some("recovered")]
        ELSE [type |-> "success", attempts |-> 1, details |-> None]
    ELSE [type |-> "error", attempts |-> r.attempts, details |-> r.error,
          retry_reason |-> r.retry_reason,
          can_retry_manually |-> r.retry_reason # Some("auth_error")]

\* The caller of transcribe_with_retry builds the notification for the
\* outcome it got.
CreateRetryNotification ==
    /\ ~IsNone(retry_result)
    /\ IsNone(notification)
    /\ notification' = Some(create_retry_notification(retry_result[1]))
    /\ UNCHANGED <<coordinator, singleton, classification, handler, retry_loop, backoff,
                   timeouts>>

RetryNext ==
    \/ \E value \in ReturnValues : attempt_succeeds(value)
    \/ \E err \in ErrorSamples : attempt_fails(err)
    \/ all_attempts_failed
    \/ CreateRetryNotification

SpecRetry == RetryInit /\ [][RetryNext]_vars

\* Every call of retry_transcription that can go on does.
FairSpecRetry == SpecRetry /\ WF_vars(RetryNext)

\* --------------------------------------------- claims: retry_transcription
\* Invocation k of the operation raised an exception that should_retry
\* classifies as retryable / as not retryable.
FailedRetryably(k) ==
    calls[k].kind = "raised" /\ should_retry(calls[k].value)[1]
FailedForGood(k) ==
    calls[k].kind = "raised" /\ ~should_retry(calls[k].value)[1]

\* The category should_retry gives the exception of invocation k.
CategoryOf(k) == should_retry(calls[k].value)[2]

\* C12: when attempt k fails with an error classified as not retryable, the
\* loop returns at once a failed outcome with attempts = k and that error's
\* category; the operation is not invoked again and no sleep follows the
\* failure (k - 1 sleeps happened, one after each earlier failure); an
\* operation whose first failure is an authentication error gives attempts = 1.
C12_NonRetryableStopsAtOnce ==
    /\ \A k \in 1..Len(calls) :
           FailedForGood(k) =>
               /\ k = Len(calls)
               /\ retry_result =
                      Some(RetryResult(FALSE, None, Some(calls[k].value), k,
                                       Some(CategoryOf(k))))
               /\ Len(sleeps) = k - 1
    /\ (/\ Len(calls) >= 1
        /\ calls[1].kind = "raised"
        /\ CategoryOf(1) = "auth_error")
           => (~IsNone(retry_result) /\ retry_result[1].attempts = 1)

\* The second attempt failed with "Bad request" after a retryable failure
\* and the loop returned with attempts = 2 after one sleep.
C12_Witness ==
    /\ Len(calls) = 2
    /\ FailedRetryably(1)
    /\ calls[2] = FuncRaised(<<"Bad", "request">>)
    /\ Len(sleeps) = 1
    /\ ~IsNone(retry_result)
    /\ retry_result[1].attempts = 2
    /\ retry_result[1].retry_reason = Some("unknown_error")

\* C15: if the operation fails retryably on attempts 1..k-1 and returns on
\* attempt k <= max_attempts, retry_transcription returns a successful
\* outcome with attempts = k carrying the operation's result, after exactly
\* k invocations; two network failures then a success give attempts = 3.
C15_SuccessAfterRetries ==
    /\ \A k \in 1..Len(calls) :
           calls[k].kind = "returned" =>
               /\ k = Len(calls)
               /\ k <= handler.max_attempts
               /\ \A i \in 1..(k - 1) : FailedRetryably(i)
               /\ retry_result =
                      Some(RetryResult(TRUE, calls[k].value, None, k, None))
    /\ (/\ Len(calls) = 3
        /\ FailedRetryably(1) /\ CategoryOf(1) = "network_error"
        /\ FailedRetryably(2) /\ CategoryOf(2) = "network_error"
        /\ calls[3].kind = "returned")
           => (/\ ~IsNone(retry_result)
               /\ retry_result[1].success
               /\ retry_result[1].attempts = 3)

\* "Connection timeout" twice, then the transcription: success, attempts = 3.
C15_Witness ==
    /\ calls = <<FuncRaised(<<"Connection", "timeout">>),
                 FuncRaised(<<"Connection", "timeout">>),
                 FuncReturned(Some("transcription"))>>
    /\ Len(sleeps) = 2
    /\ retry_result =
           Some(RetryResult(TRUE, Some("transcription"), None, 3, None))

\* C16: if every one of the max_attempts invocations fails with a retryable
\* error, retry_transcription returns (its next step is to return, or it has
\* returned) a failed outcome with attempts = max_attempts whose error text
\* and category are those of the last failure.
C16_ExhaustedReturnsLastFailure ==
    (/\ handler.max_attempts >= 1
     /\ Len(calls) = handler.max_attempts
     /\ \A k \in 1..Len(calls) : FailedRetryably(k))
        => \/ IsNone(retry_result) /\ ENABLED all_attempts_failed
           \/ retry_result =
                  Some(RetryResult(FALSE, None,
                                   Some(calls[Len(calls)].value),
                                   handler.max_attempts,
                                   Some(CategoryOf(Len(calls)))))

\* max_attempts = 3 and "Internal server error" three times: failed,
\* attempts = 3, category server_error, two sleeps.
C16_Witness ==
    /\ handler.max_attempts = 3
    /\ calls = [k \in 1..3 |-> FuncRaised(<<"Internal", "server", "error">>)]
    /\ Len(sleeps) = 2
    /\ retry_result =
           Some(RetryResult(FALSE, None,
                            Some(<<"Internal", "server", "error">>), 3,
                            Some("server_error")))

\* The outcome retry_transcription returned.
Outcome == retry_result[1]

\* The three fields of an outcome agree: success, a payload, no error text.
Consistent(r) ==
    /\ r.success <=> ~IsNone(r.data)
    /\ r.success <=> IsNone(r.error)

\* C17 as stated: every outcome returned by retry_transcription has
\* success true if and only if data is non-null, if and only if error is
\* null, for every operation, including one that returns no value.
C17_SuccessIffDataIffNoError ==
    ~IsNone(retry_result) => Consistent(Outcome)

\* C17 amended: every outcome returned by retry_transcription for an
\* operation that returns a non-null value whenever it returns has success
\* true if and only if data is non-null, if and only if error is null.
C17_ConsistentUnlessNoneReturned ==
    (/\ ~IsNone(retry_result)
     /\ \A k \in 1..Len(calls) : calls[k] # FuncReturned(None))
        => Consistent(Outcome)

\* A success with its payload after one failure, and no error text.
C17_Witness ==
    /\ Len(calls) = 2
    /\ calls[2] = FuncReturned(Some("transcription"))
    /\ ~IsNone(retry_result)
    /\ Outcome.success
    /\ Outcome.data = Some("transcription")
    /\ IsNone(Outcome.error)

\* C18: for every configured max_attempts and every operation, the attempts
\* field of the outcome is at least 1 and at most max_attempts, and the
\* operation is invoked at most max_attempts times.
C18_AttemptsWithinBounds ==
    /\ Len(calls) <= handler.max_attempts
    /\ ~IsNone(retry_result) =>
           (Outcome.attempts >= 1 /\ Outcome.attempts <= handler.max_attempts)

\* C19: whatever the operation raises and for any handler configuration, a
\* call that does not succeed ends by returning an outcome that carries a
\* non-null error message and a non-null failure category.
C19_FailureIsClassified ==
    (~IsNone(retry_result) /\ ~Outcome.success)
        => (~IsNone(Outcome.error) /\ ~IsNone(Outcome.retry_reason))

\* ----------------------------------------------- claims: calculate_delay
\* C21 as stated: for every attempt >= 1 the network delay is strictly less
\* than the rate-limit delay of the same attempt, also where the cap applies
\* (stated for a positive base delay: with a base delay of 0 both are 0).
C21_NetworkBelowRateLimit ==
    (handler.base_delay > 0 /\ delay_reason = "network_error") =>
        \A a \in 1..Len(delays) :
            delays[a] < calculate_delay(handler, a, "rate_limit")

\* C21 amended: for a non-negative base delay and every attempt >= 1 the
\* network delay is at most the rate-limit delay of the same attempt, and
\* strictly less when the base delay is positive and the network delay is
\* below the 30-second cap.
C21_NetworkBelowRateLimitUnderCap ==
    (handler.base_delay >= 0 /\ delay_reason = "network_error") =>
        \A a \in 1..Len(delays) :
            /\ delays[a] <= calculate_delay(handler, a, "rate_limit")
            /\ (handler.base_delay > 0 /\ delays[a] < MaxDelay) =>
                   delays[a] < calculate_delay(handler, a, "rate_limit")

\* With the default base delay: attempt 5 waits 8 s for a network error where
\* a rate limit waits the full 30 s, and at the last attempt both wait 30 s.
C21_Witness ==
    /\ handler.base_delay = DefaultHandler.base_delay
    /\ delay_reason = "network_error"
    /\ Len(delays) >= 5
    /\ delays[5] = 8000
    /\ calculate_delay(handler, 5, "rate_limit") = MaxDelay
    /\ delays[Len(delays)] = MaxDelay

\* --------------------------------- claims: unknown failures and sleeping
\* C28 as stated: retry_transcription never returns a failed outcome with
\* category unknown and attempts < max_attempts.
C28_UnknownNeverFinalEarly ==
    ~IsNone(retry_result) =>
        ~(/\ ~Outcome.success
          /\ Outcome.retry_reason = Some("unknown_error")
          /\ Outcome.attempts < handler.max_attempts)

\* C28 amended: a failure that matches none of the rules (category unknown
\* by default) is retried while attempts remain, and a failed outcome with
\* category unknown and attempts < max_attempts is only returned for a
\* failure whose description holds a client-error keyword (400, 403, 404,
\* bad request, forbidden, not found).
C28_UnknownFinalEarlyOnlyForClientError ==
    /\ \A k \in 1..Len(calls) :
           (/\ calls[k].kind = "raised"
            /\ should_retry(calls[k].value) = <<TRUE, "unknown_error">>
            /\ k < handler.max_attempts)
               => (IsNone(retry_result) \/ k < Len(calls))
    /\ (/\ ~IsNone(retry_result)
        /\ ~Outcome.success
        /\ Outcome.retry_reason = Some("unknown_error")
        /\ Outcome.attempts < handler.max_attempts)
           => (/\ Len(calls) = Outcome.attempts
               /\ calls[Len(calls)].kind = "raised"
               /\ any(lower(calls[Len(calls)].value), client_keywords))

\* "Request failed", which no rule matches, was followed by a sleep and a
\* second invocation.
C28_Witness ==
    /\ Len(calls) = 2
    /\ calls[1] = FuncRaised(<<"Request", "failed">>)
    /\ Len(sleeps) >= 1
    /\ handler.max_attempts > 2

\* C30: in every run of retry_transcription the loop sleeps exactly
\* attempts - 1 times; the i-th sleep follows the i-th invocation, which
\* failed retryably and was not the final attempt, and lasts
\* calculate_delay(i, its category); no sleep follows a success, a
\* non-retryable failure or the final attempt.
C30_SleepsBetweenAttempts ==
    /\ Len(sleeps) <= Len(calls)
    /\ \A i \in 1..Len(sleeps) :
           /\ FailedRetryably(i)
           /\ i < handler.max_attempts
           /\ sleeps[i] = calculate_delay(handler, i, CategoryOf(i))
    /\ ~IsNone(retry_result) => Len(sleeps) = Outcome.attempts - 1

(***************************************************************************)
(* The per-call timeout (retry_logic.py, calculate_dynamic_timeout and the *)
(* head of create_openai_transcription).  Audio durations are in tenths of *)
(* a second, timeouts in seconds.                                          *)
(***************************************************************************)
\* ------------------------------------------------------------------ bounds
MaxShortDuration == 200
MaxLongDuration == 1000

\* `return 60`, `max(60, ...)`: the minimum timeout.
MinTimeout == 60
\* `min(calculated_timeout, 1800)`: the maximum timeout.
MaxTimeout == 1800
\* `(audio_duration_seconds * 2) + 30`: the base of the formula.
BaseTimeout == 30
\* create_openai_transcription: `timeout = 60  # Default minimum timeout`.
DefaultTimeout == 60

\* What get_audio_duration can hand over: every tenth of a second up to
\* MaxShortDuration tenths (and as far below zero), every ten seconds up to
\* 10 * MaxLongDuration seconds, the two values around the upper limit, or
\* None when ffprobe gave nothing.
Durations ==
    ((0 - MaxShortDuration)..MaxShortDuration)
        \cup {100 * i : i \in 0..MaxLongDuration} \cup {8849, 8850}
OptionalDuration == {None} \cup {Some(d) : d \in Durations}

\* How a call ends: with a value, or with an exception.
Returns(v) == [kind |-> "returned", value |-> v]
Raises(e) == [kind |-> "raised", value |-> e]

Max(a, b) == IF a >= b THEN a ELSE b

\* calculate_dynamic_timeout without the lower limit.
calculate_dynamic_timeout_no_minimum(audio_duration_seconds) ==
    IF IsNone(audio_duration_seconds) THEN Raises("TypeError")
    ELSE IF audio_duration_seconds[1] <= 0 THEN Returns(MinTimeout)
    ELSE Returns(Min((audio_duration_seconds[1] * 2 + 10 * BaseTimeout)
                         \div 10, MaxTimeout))

\* calculate_dynamic_timeout(audio_duration_seconds).  `None <= 0` raises
\* TypeError; int() of a positive number rounds down.
calculate_dynamic_timeout(audio_duration_seconds) ==
    IF IsNone(audio_duration_seconds) THEN Raises("TypeError")
    ELSE IF audio_duration_seconds[1] <= 0 THEN Returns(MinTimeout)
    ELSE LET calculated_timeout ==
                 (audio_duration_seconds[1] * 2 + 10 * BaseTimeout) \div 10
         IN  Returns(Max(MinTimeout, Min(calculated_timeout, MaxTimeout)))

\* create_openai_transcription: `if audio_duration and audio_duration > 0`.
choose_timeout(duration) ==
    IF ~IsNone(duration) /\ duration[1] # 0 /\ duration[1] > 0
    THEN calculate_dynamic_timeout(duration)
    ELSE Returns(DefaultTimeout)

\* The duration probe has answered; nothing else is going on.
TimeoutInit ==
    /\ WindowManagerInit
    /\ error = <<>>
    /\ classified = None
    /\ handler = DefaultHandler
    /\ attempt = 1
    /\ calls = <<>>
    /\ sleeps = <<>>
    /\ last_error = None
    /\ retry_reason = None
    /\ retry_result = None
    /\ delay_reason = None
    /\ delays = <<>>
    /\ audio_duration \in OptionalDuration
    /\ dynamic_timeout = None
    /\ api_timeout = None
    /\ NoNotification
    /\ SharedInstanceCreated

CalculateDynamicTimeout ==
    /\ IsNone(dynamic_timeout)
    /\ dynamic_timeout' = Some(calculate_dynamic_timeout(audio_duration))
    /\ UNCHANGED <<coordinator, singleton, classification, handler, retry_loop, backoff,
                   audio_duration, api_timeout, notification>>

ChooseTimeout ==
    /\ IsNone(api_timeout)
    /\ api_timeout' = Some(choose_timeout(audio_duration))
    /\ UNCHANGED <<coordinator, singleton, classification, handler, retry_loop, backoff,
                   audio_duration, dynamic_timeout, notification>>

TimeoutNext == CalculateDynamicTimeout \/ ChooseTimeout

SpecTimeout == TimeoutInit /\ [][TimeoutNext]_vars

\* ------------------------------------------------------ claims: timeouts
\* The timeout, in seconds, that the specification gives a known duration of
\* d tenths of a second: max(60, min(floor(2 * d + 30), 1800)), 60 for d <= 0.
ExpectedTimeout(d) ==
    IF d <= 0 THEN 60
    ELSE LET f == (2 * d + 300) \div 10
             m == IF f < 1800 THEN f ELSE 1800
         IN  IF m > 60 THEN m ELSE 60

\* C22: for a known duration d, calculate_dynamic_timeout(d) returns
\* max(60, min(floor(2*d + 30), 1800)) for d > 0 and 60 for d <= 0; the result
\* lies in [60, 1800], is non-decreasing in d, and is 60 at 0, 1230 at 600 s
\* and 1800 at 10000 s.
C22_DynamicTimeoutFormula ==
    (~IsNone(audio_duration) /\ ~IsNone(dynamic_timeout)) =>
        LET d == audio_duration[1]
            outcome == dynamic_timeout[1]
        IN  /\ outcome = Returns(ExpectedTimeout(d))
            /\ outcome.value >= 60 /\ outcome.value <= 1800
            /\ \A later \in Durations :
                   later >= d =>
                       calculate_dynamic_timeout(Some(later)).kind = "returned"
                       /\ outcome.value
                              <= calculate_dynamic_timeout(Some(later)).value
            /\ d = 0 => outcome.value = 60
            /\ d = 6000 => outcome.value = 1230
            /\ d = 100000 => outcome.value = 1800

\* 600 s of audio got a timeout of 1230 s.
C22_Witness ==
    /\ audio_duration = Some(6000)
    /\ dynamic_timeout = Some(Returns(1230))

\* C23: when the audio duration is unknown, the timeout computation yields
\* the default 60 seconds and raises no error, in calculate_dynamic_timeout
\* itself and in the timeout chosen by create_openai_transcription.
C23_UnknownDurationGivesDefault ==
    IsNone(audio_duration) =>
        /\ ~IsNone(dynamic_timeout) => dynamic_timeout = Some(Returns(60))
        /\ ~IsNone(api_timeout) => api_timeout = Some(Returns(60))

\* ------------------------------------------------- claims: notification
\* C24: create_retry_notification gives a terminal outcome exactly one
\* type: success when it succeeded on the first attempt, success_after_retry
\* when it succeeded with attempts > 1, error when it failed; an error
\* notification has can_retry_manually true if and only if the failure
\* category is not authentication.
C24_NotificationType ==
    ~IsNone(notification) =>
        LET n == notification[1]
        IN  /\ n.type \in {"success", "success_after_retry", "error"}
            /\ n.type = "success" <=> (Outcome.success /\ Outcome.attempts = 1)
            /\ n.type = "success_after_retry" <=>
                   (Outcome.success /\ Outcome.attempts > 1)
            /\ n.type = "error" <=> ~Outcome.success
            /\ n.type = "error" =>
                   (n.can_retry_manually <=>
                        Outcome.retry_reason # Some("auth_error"))

\* An authentication failure on the second attempt was reported as an error
\* that cannot be retried manually.
C24_Witness ==
    /\ ~IsNone(notification)
    /\ notification[1].type = "error"
    /\ ~notification[1].can_retry_manually
    /\ Outcome.attempts = 2
    /\ Outcome.retry_reason = Some("auth_error")

Setting(t) ==
    /\ Pending(t, "set_widget_position")
    /\ Top(t).pc \in {"acquire", "locked", "after"}

\* C26: when the write of widget_state.json fails during set_widget_position,
\* the call reports a failed result (returns False) to its caller.
C26_FailedWriteIsReported ==
    \A t \in Threads :
        (/\ Pending(t, "set_widget_position")
         /\ Top(t).pc = "return"
         /\ Top(t).loc.saved # "ok")
            => Top(t).ret = FALSE

\* C25: once a set_widget_position(x, y) has returned success, a
\* get_widget_position that reads the position while no setter is running
\* reads the (x, y) of the last setter to complete, also in a process
\* restarted on the same configuration directory.
C25_PositionRoundTrip ==
    \A t \in Threads :
        (/\ Deciding(t, "get_widget_position")
         /\ \A u \in Threads : ~Setting(u)
         /\ last_position_set # None)
            => widget_position = last_position_set[1]

\* -------------------------------------------- get_shared_window_manager
\* A request handler calls get_shared_window_manager().
GetShared(t) ==
    /\ getter[t].pc = "idle"
    /\ getter' = [getter EXCEPT ![t] = [pc |-> "check", new |-> None,
                                        ret |-> None]]
    /\ UNCHANGED <<coordinator, retry, window_manager_instance, constructed>>

\* `if _window_manager_instance is None:` reads the global, no lock held.
CheckInstance(t) ==
    /\ getter[t].pc = "check"
    /\ getter' = [getter EXCEPT ![t].pc =
                     IF IsNone(window_manager_instance) THEN "construct"
                     ELSE "return"]
    /\ UNCHANGED <<coordinator, retry, window_manager_instance, constructed>>

\* WindowManager(): a new object is constructed (the constructor creates the
\* directory and reads the two files).
ConstructInstance(t) ==
    /\ getter[t].pc = "construct"
    /\ constructed' = constructed + 1
    /\ getter' = [getter EXCEPT ![t].pc = "store",
                                ![t].new = Some(constructed + 1)]
    /\ UNCHANGED <<coordinator, retry, window_manager_instance>>

\* `_window_manager_instance = ...` stores the new object in the global.
StoreInstance(t) ==
    /\ getter[t].pc = "store"
    /\ window_manager_instance' = getter[t].new
    /\ getter' = [getter EXCEPT ![t].pc = "return"]
    /\ UNCHANGED <<coordinator, retry, constructed>>

\* `return _window_manager_instance` reads the global again.
ReturnInstance(t) ==
    /\ getter[t].pc = "return"
    /\ getter' = [getter EXCEPT ![t] = [pc |-> "idle", new |-> None,
                                        ret |-> window_manager_instance]]
    /\ UNCHANGED <<coordinator, retry, window_manager_instance, constructed>>

\* The module has been imported: no instance exists yet.
SharedInit ==
    /\ WindowManagerInit
    /\ HandlerIdle
    /\ window_manager_instance = None
    /\ constructed = 0
    /\ getter = NoGetter

SharedNext ==
    \E t \in Threads :
        \/ GetShared(t)
        \/ CheckInstance(t)
        \/ ConstructInstance(t)
        \/ StoreInstance(t)
        \/ ReturnInstance(t)

SpecShared == SharedInit /\ [][SharedNext]_vars

\* C27: every call of get_shared_window_manager, including concurrent calls
\* made before the first instance exists, returns the same instance.
C27_OneSharedInstance ==
    \A t, u \in Threads :
        (getter[t].ret # None /\ getter[u].ret # None)
            => getter[t].ret = getter[u].ret

\* ----------------------------------------- claims: the order of the rules
\* The phrases listed for the network rule (connection, network, unreachable,
\* connection reset, connection refused) and for the server-error rule
\* (internal server error, 500, 502, 503, 504, service unavailable).
listed_network_phrases == connectivity_keywords
listed_server_phrases == server_keywords \ {<<"server", "error">>}

\* The result of the earliest matching rule when each rule matches exactly
\* the phrases listed for it.
earliest_listed_rule(error_str) ==
    IF any(error_str, listed_network_phrases) THEN <<TRUE, "network_error">>
    ELSE IF any(error_str, rate_limit_keywords) THEN <<TRUE, "rate_limit">>
    ELSE IF any(error_str, listed_server_phrases) THEN <<TRUE, "server_error">>
    ELSE IF any(error_str, timeout_keywords) THEN <<TRUE, "api_timeout">>
    ELSE IF any(error_str, auth_keywords) THEN <<FALSE, "auth_error">>
    ELSE IF any(error_str, client_keywords) THEN <<FALSE, "unknown_error">>
    ELSE <<TRUE, "unknown_error">>

\* C31: should_retry returns the result of the earliest matching rule in the
\* order network, rate limit, server error, timeout, authentication, client
\* error, each rule matching exactly the phrases listed for it, and
\* (retryable, unknown) for a description that matches no rule.
C31_FirstListedRuleWins ==
    classified # None => classified = Some(earliest_listed_rule(lower(error)))

\* C32: a description containing a client-error phrase (400, 403, 404, bad
\* request, forbidden, not found) and no phrase listed for an earlier rule
\* (network, rate limit, server error, timeout, authentication) is classified
\* (not retryable, unknown).
C32_ClientErrorIsFinal ==
    (/\ classified # None
     /\ Mentions(client_keywords)
     /\ ~Mentions(listed_network_phrases \cup rate_limit_keywords
                    \cup listed_server_phrases \cup timeout_keywords
                    \cup auth_keywords))
        => ClassifiedAs(FALSE, "unknown_error")

\* ------------------------------------------------- claims: the backoff
\* The handler's two uses of calculate_delay: callers ask for the delays of
\* attempts 1, 2, ... for one reason, and retry_transcription calls it before
\* each sleep.
BackoffInit ==
    /\ WindowManagerInit
    /\ error = <<>>
    /\ classified = None
    /\ handler \in Handlers
    /\ attempt = 1
    /\ calls = <<>>
    /\ sleeps = <<>>
    /\ last_error = None
    /\ retry_reason = None
    /\ retry_result = None
    /\ delay_reason \in RetryReason
    /\ delays = <<>>
    /\ NoTimeout
    /\ NoNotification
    /\ SharedInstanceCreated

BackoffNext == CalculateDelay \/ RetryNext

SpecBackoff == BackoffInit /\ [][BackoffNext]_vars

\* Twice the factor f(c) of a category: 3 for rate_limit, 1/2 for network,
\* 1 for every other category.
TwiceFactor(c) ==
    CASE c = "rate_limit" -> 6
      [] c = "network_error" -> 1
      [] OTHER -> 2

\* d = min(30 s, base_delay * 2^(n-1) * f(c)), with both sides doubled.
IsBackoffDelay(d, n, c) ==
    2 * d = Min(2 * MaxDelay, handler.base_delay * Pow2(n - 1) * TwiceFactor(c))

\* C33: calculate_delay(n, c) = min(30, base_delay * 2^(n-1) * f(c)) with
\* f(rate_limit) = 3, f(network) = 1/2 and f(c) = 1 otherwise, for every
\* attempt n >= 1; and the delay slept after failed attempt n is
\* calculate_delay(n, category of that failure).
C33_DelayFormula ==
    /\ \A n \in 1..Len(delays) : IsBackoffDelay(delays[n], n, delay_reason)
    /\ \A n \in 1..Len(sleeps) :
           /\ FailedRetryably(n)
           /\ IsBackoffDelay(sleeps[n], n, CategoryOf(n))

\* The default handler's delay for rate limiting has reached the cap at
\* attempt 5, and the handler slept half a second after a network failure of
\* the first attempt and six seconds after a rate-limit failure of the second.
C33_Witness ==
    /\ handler.base_delay = DefaultHandler.base_delay
    /\ delay_reason = "rate_limit"
    /\ Len(delays) >= 5
    /\ delays[5] = MaxDelay
    /\ Len(calls) >= 2
    /\ CategoryOf(1) = "network_error"
    /\ CategoryOf(2) = "rate_limit"
    /\ sleeps = <<500, 6000>>

\* --------------------------------------------- claims: terminal outcomes
\* The three terminal outcomes of a run: the last invocation returned, the
\* last invocation failed with a non-retryable error, or max_attempts
\* invocations all failed with retryable errors; every invocation before the
\* last failed with a retryable error.
EndedInSuccess ==
    /\ Outcome.success
    /\ Len(calls) >= 1
    /\ calls[Len(calls)].kind = "returned"
EndedNonRetryable ==
    /\ ~Outcome.success
    /\ Len(calls) >= 1
    /\ FailedForGood(Len(calls))
EndedExhausted ==
    /\ ~Outcome.success
    /\ Len(calls) = handler.max_attempts
    /\ \A k \in 1..Len(calls) : FailedRetryably(k)

\* C34: provided each invocation of the operation returns or raises, every
\* run of retry_transcription terminates, in one of exactly three terminal
\* outcomes (success, non-retryable failure, failure after max_attempts
\* retryable failures), and the operation is not invoked again after it.
C34_RunsToTerminalOutcome ==
    /\ <>(~IsNone(retry_result))
    /\ [](~IsNone(retry_result) =>
            /\ \A k \in 1..(Len(calls) - 1) : FailedRetryably(k)
            /\ \/ EndedInSuccess /\ ~EndedNonRetryable /\ ~EndedExhausted
               \/ ~EndedInSuccess /\ EndedNonRetryable /\ ~EndedExhausted
               \/ ~EndedInSuccess /\ ~EndedNonRetryable /\ EndedExhausted)
    /\ [][~IsNone(retry_result) =>
            (calls' = calls /\ retry_result' = retry_result)]_vars

\* A run with max_attempts = 3 has ended after three retryable failures, the
\* first a network failure and the second a rate-limit failure.
C34_Witness ==
    /\ ~IsNone(retry_result)
    /\ handler.max_attempts = 3
    /\ Len(calls) = 3
    /\ CategoryOf(1) = "network_error"
    /\ CategoryOf(2) = "rate_limit"
    /\ EndedExhausted

\* ------------------------------------------------------ claims: the lock
\* Thread t waits to acquire the lock.
Waiting(t) == InCall(t) /\ Top(t).pc = "acquire"

\* C35: no coordinator operation tries to acquire the lock while the calling
\* thread already holds it: no reachable state has a thread waiting on a lock
\* it holds itself, and the lock is free whenever no operation is executing.
C35_LockNeverReacquired ==
    /\ \A t \in Threads : ~(Waiting(t) /\ t \in lock)
    /\ (\A t \in Threads : ~InCall(t)) => lock = {}

\* ---------------------------------------------- claims: recording states
\* C36: no sequence of coordinator operations puts the recording state in
\* error, and the reachable recording states are exactly idle, recording and
\* processing: a stop_recording called while the state is recording takes
\* the state to processing (unless a reset has made it idle in the meantime).
C36_RecordingStatesReached ==
    /\ [](recording_state \in {"idle", "recording", "processing"})
    /\ \A t \in Threads :
           (Entered(t, "stop_recording") /\ recording_state = "recording")
               ~> recording_state \in {"processing", "idle"}

\* ------------------------------------------------- claims: the session
\* The values the session fields can hold while a session is open.
SessionTimes == {Some(n) : n \in 1..MaxClock}

Follows(i, type) ==
    /\ i > 1
    /\ notified[i - 1] = <<type, notified[i][2]>>

\* C38: state-change listeners receive the notifications of the recording
\* transitions, in the order in which the transitions took effect: every
\* session that has started is notified as recording_started, a
\* recording_stopped comes right after the recording_started of its session
\* and a recording_completed right after its recording_stopped.
C38_NotifiedInOrder ==
    /\ [](\A i \in 1..Len(notified) :
            /\ notified[i][1] = "recording_stopped"
                   => Follows(i, "recording_started")
            /\ notified[i][1] = "recording_completed"
                   => Follows(i, "recording_stopped"))
    /\ \A s \in SessionTimes :
           (recording_session_id = s)
               ~> (\E i \in 1..Len(notified) :
                       notified[i] = <<"recording_started", s>>)

\* ------------------------------------------------- the handler's session
\* Thread t serves POST /api/transcribe and is at the entry of the handler.
AtEntry(t) ==
    Pending(t, "transcribe_audio") /\ Depth(t) = 1 /\ Top(t).pc = "after"

====
